---- MODULE Spec2Model ----
(***************************************************************************)
(* Model of Java_sun_nio_ch_PipeDispatcherImpl_skip0                       *)
(* (src/java.base/linux/native/libnio/ch/PipeDispatcherImpl.c).            *)
(*                                                                         *)
(* One call of skip0 on one descriptor.  The descriptor is a byte stream   *)
(* holding `ready` bytes before end-of-stream; each read(2) either         *)
(* delivers bytes (all that is available up to the requested count, or,    *)
(* nondeterministically, fewer) or fails with an errno.  `log` is the      *)
(* history of the read calls issued, in order.                             *)
(***************************************************************************)
EXTENDS Integers, Sequences, FiniteSets, TLC

\* ---------------------------------------------------------------- constants

MAX_SKIP_BUFFER_SIZE == 4096

\* the two negative sentinels of nio.h; only their being negative and distinct
\* matters here
IOS_INTERRUPTED == -3

IOS_THROWN == -5

\* ------------------------------------------------------------------- bounds

\* requested counts and stream lengths reach MaxChunks whole chunks (+/- 1)
MaxChunks == 2

\* small requested counts and stream lengths 0..MaxSmall
MaxSmall == 3

\* negative requested counts -NegCounts..-1
NegCounts == 2

AroundChunks == { k * MAX_SKIP_BUFFER_SIZE + d : k \in 1..MaxChunks, d \in {-1, 0, 1} }

Counts == ((0 - NegCounts)..MaxSmall) \cup AroundChunks

Avails == (0..MaxSmall) \cup AroundChunks

\* errno values read(2) can set; EAGAIN and EWOULDBLOCK are kept apart
Errnos == {"EAGAIN", "EWOULDBLOCK", "EINTR", "EIO", "EBADF"}

Min(a, b) == IF a < b THEN a ELSE b

\* ---------------------------------------------------------------- the state

VARIABLES
    pc,       \* "start" (not yet called), "loop" (top of for(;;)), "done"
    n,        \* requested count (jlong n)
    bs,       \* chunk size = size of the scratch buffer (long bs)
    tn,       \* accumulated total (jlong tn)
    ready,    \* bytes left in the descriptor's stream before end-of-stream
    avail0,   \* bytes in the stream when the call began (history)
    ret,      \* value returned by skip0, meaningful when pc = "done"
    thrown,   \* IOExceptions raised through JNU_ThrowIOExceptionWithLastError
    log       \* history of the read calls issued

vars == <<pc, n, bs, tn, ready, avail0, ret, thrown, log>>

\* ------------------------------------------------- the code's computations

\* if (n < 1) return 0;
EarlyReturnOnZeroOnly(cnt) == cnt < 0

EarlyReturn(cnt) == cnt < 1

\* const long bs = n < MAX_SKIP_BUFFER_SIZE ? (long) n : MAX_SKIP_BUFFER_SIZE;
ChunkSize(cnt) == IF cnt < MAX_SKIP_BUFFER_SIZE THEN cnt ELSE MAX_SKIP_BUFFER_SIZE

\* const jlong remaining = n - tn;
Remaining(cnt, total) == cnt - total

\* const ssize_t count = remaining < bs ? (ssize_t) remaining : bs;
ReadCountWholeBuffer(remaining, b) == b

ReadCountAllRemaining(remaining, b) == remaining

ReadCount(remaining, b) == IF remaining < b THEN remaining ELSE b

\* if (nr > 0) tn += nr;
AccumulateOffByOne(total, nr) == IF nr > 1 THEN total + nr ELSE total

Accumulate(total, nr) == IF nr > 0 THEN total + nr ELSE total

\* if (nr == bs) continue;
ContinueNever(nr, b) == FALSE

ContinueOnAnyData(nr, b) == nr > 0

Continue(nr, b) == nr = b

\* the value returned on nr < 0, by errno
ErrnoResultIntrAsTotal(e, total) ==
    IF e = "EAGAIN" \/ e = "EWOULDBLOCK" \/ e = "EINTR" THEN total
    ELSE IOS_THROWN

ErrnoResultAgainAsZero(e, total) ==
    IF e = "EAGAIN" \/ e = "EWOULDBLOCK" THEN 0
    ELSE IF e = "EINTR" THEN IOS_INTERRUPTED
    ELSE IOS_THROWN

ErrnoResult(e, total) ==
    IF e = "EAGAIN" \/ e = "EWOULDBLOCK" THEN total
    ELSE IF e = "EINTR" THEN IOS_INTERRUPTED
    ELSE IOS_THROWN

\* whether JNU_ThrowIOExceptionWithLastError is called on nr < 0, by errno
ErrnoThrowsNever(e) == FALSE

ErrnoThrows(e) == ~(e = "EAGAIN" \/ e = "EWOULDBLOCK") /\ e # "EINTR"

\* read(2) delivering fewer bytes than it could: some proper part of m bytes
PartialSizes(m) == {1, m \div 2, m - 1} \cap (1..(m - 1))

\* --------------------------------------------------------------------- Init

Init ==
    /\ pc = "start"
    /\ n \in Counts
    /\ ready \in Avails
    /\ avail0 = ready
    /\ bs = 0
    /\ tn = 0
    /\ ret = 0
    /\ thrown = 0
    /\ log = << >>

\* ------------------------------------------------------------------ actions

\* entry of skip0 up to the top of the loop
Skip0Entry ==
    /\ pc = "start"
    /\ IF EarlyReturn(n)
       THEN /\ pc' = "done"
            /\ ret' = 0
            /\ UNCHANGED <<bs, tn>>
       ELSE /\ pc' = "loop"
            /\ bs' = ChunkSize(n)
            /\ tn' = 0
            /\ UNCHANGED ret
    /\ UNCHANGED <<n, ready, avail0, thrown, log>>

\* one loop iteration whose read returned nr >= 0
Delivered(nr) ==
    LET remaining == Remaining(n, tn)
        count     == ReadCount(remaining, bs)
    IN  /\ log' = Append(log, [remaining |-> remaining, count |-> count,
                               avail |-> ready, nr |-> nr, errno |-> "none"])
        /\ ready' = ready - nr
        /\ tn' = Accumulate(tn, nr)
        /\ IF Continue(nr, bs)
           THEN pc' = "loop" /\ UNCHANGED ret
           ELSE pc' = "done" /\ ret' = tn'
        /\ UNCHANGED <<n, bs, avail0, thrown>>

\* the read returns everything available, up to the requested count
\* (0 at end-of-stream or for a zero-length request)
ReadAvailable ==
    /\ pc = "loop"
    /\ Delivered(Min(ready, ReadCount(Remaining(n, tn), bs)))

\* the read returns fewer bytes than are available and were requested
ReadPartial ==
    /\ pc = "loop"
    /\ \E nr \in PartialSizes(Min(ready, ReadCount(Remaining(n, tn), bs))) :
          Delivered(nr)

\* one loop iteration whose read returned -1 with errno e
ReadFail ==
    /\ pc = "loop"
    /\ \E e \in Errnos :
          LET remaining == Remaining(n, tn)
              count     == ReadCount(remaining, bs)
          IN  /\ log' = Append(log, [remaining |-> remaining, count |-> count,
                                     avail |-> ready, nr |-> -1, errno |-> e])
              /\ thrown' = IF ErrnoThrows(e) THEN thrown + 1 ELSE thrown
              /\ ret' = ErrnoResult(e, tn)
              /\ pc' = "done"
    /\ UNCHANGED <<n, bs, tn, ready, avail0>>

Next == Skip0Entry \/ ReadAvailable \/ ReadPartial \/ ReadFail

Spec == Init /\ [][Next]_vars

\* every read(2) returns, so a call that can take a step takes one
FairSpec == Init /\ [][Next]_vars /\ WF_vars(Next)

\* ------------------------------------------------------ history operators

Reads == Len(log)

Last == log[Len(log)]

\* bytes delivered by the first k reads of the log
RECURSIVE Delivery(_)
Delivery(k) == IF k = 0 THEN 0
               ELSE Delivery(k - 1) + (IF log[k].nr > 0 THEN log[k].nr ELSE 0)

\* every read so far succeeded and delivered all that was available to it
NoFault == \A i \in DOMAIN log : log[i].nr = Min(log[i].avail, log[i].count)

Sentinels == {IOS_INTERRUPTED, IOS_THROWN}

Returned == pc = "done"

\* ------------------------------------------------------------------- claims

\* C1: with exactly n >= 1 bytes in the stream and every read succeeding and
\* delivering all that is available to it, skip0 returns exactly n.
C1_ExactCount ==
    (Returned /\ n >= 1 /\ avail0 = n /\ NoFault) => ret = n

\* a call for two whole chunks, on a stream of exactly that many bytes, returned
C1_Witness ==
    /\ Returned /\ NoFault
    /\ n = 2 * MAX_SKIP_BUFFER_SIZE /\ avail0 = n
    /\ Reads = 3 /\ ret = n

\* C2: with k < n bytes in the stream before end-of-stream (n >= 1) and every
\* read succeeding and delivering all that is available to it, skip0 returns k.
C2_ShortStream ==
    (Returned /\ n >= 1 /\ avail0 < n /\ NoFault) => ret = avail0

\* a stream of exactly one chunk, more requested: the second read hits
\* end-of-stream
C2_Witness ==
    /\ Returned /\ NoFault
    /\ avail0 = MAX_SKIP_BUFFER_SIZE /\ n > avail0
    /\ Reads = 2 /\ Last.nr = 0 /\ ret = avail0

\* C3: once the loop is entered the accumulated total stays within 0..n, and
\* every non-sentinel value returned from the loop lies within 0..n, whatever
\* the reads returned.
C3_TotalWithinCount ==
    /\ (pc # "start" /\ n >= 1) => (0 <= tn /\ tn <= n)
    /\ (Returned /\ Reads > 0 /\ ret \notin Sentinels) => (0 <= ret /\ ret <= n)

\* a call that skipped a whole chunk and then part of the rest
C3_Witness ==
    /\ Returned /\ Reads = 2 /\ ~NoFault
    /\ Last.errno = "none"
    /\ tn > MAX_SKIP_BUFFER_SIZE /\ tn < n /\ ret = tn

\* C4: no read is ever issued when nothing remains to be skipped.
C4_NoReadWhenExhausted ==
    \A i \in DOMAIN log : log[i].remaining # 0

\* C5: a read failing with EINTR is the last read of the call, and the call
\* returns IOS_INTERRUPTED, not the accumulated total.
C5_Interrupted ==
    \A i \in DOMAIN log :
        log[i].errno = "EINTR" =>
            /\ i = Len(log)
            /\ Returned
            /\ ret = IOS_INTERRUPTED
            /\ ret # tn

\* interrupted after a whole chunk was already skipped
C5_Witness ==
    /\ Returned /\ Reads = 2
    /\ Last.errno = "EINTR"
    /\ tn = MAX_SKIP_BUFFER_SIZE /\ ret = IOS_INTERRUPTED

\* C6: a read failing with EAGAIN or EWOULDBLOCK ends the call, which returns
\* the bytes delivered by the preceding reads and raises nothing; when it is
\* the first read, the result is 0.
C6_WouldBlock ==
    \A i \in DOMAIN log :
        log[i].errno \in {"EAGAIN", "EWOULDBLOCK"} =>
            /\ i = Len(log)
            /\ Returned
            /\ ret = Delivery(i - 1)
            /\ thrown = 0
            /\ (i = 1 => ret = 0)

\* no more data right now, after a whole chunk was skipped
C6_Witness ==
    /\ Returned /\ Reads = 2
    /\ Last.errno = "EWOULDBLOCK"
    /\ ret = MAX_SKIP_BUFFER_SIZE /\ thrown = 0

OtherErrnoReads ==
    { i \in DOMAIN log :
        log[i].nr < 0 /\ log[i].errno \notin {"EAGAIN", "EWOULDBLOCK", "EINTR"} }

\* C7: exactly one IOException is raised for a read failing with an errno other
\* than EAGAIN, EWOULDBLOCK, EINTR, and the call then returns IOS_THROWN; no
\* IOException is raised in any other outcome.
C7_Thrown ==
    /\ thrown = Cardinality(OtherErrnoReads)
    /\ thrown <= 1
    /\ \A i \in OtherErrnoReads : i = Len(log) /\ Returned /\ ret = IOS_THROWN
    /\ (Returned /\ ret # IOS_THROWN) => thrown = 0

\* an I/O error after a whole chunk was skipped
C7_Witness ==
    /\ Returned /\ Reads = 2
    /\ Last.errno = "EIO"
    /\ tn = MAX_SKIP_BUFFER_SIZE
    /\ thrown = 1 /\ ret = IOS_THROWN

\* C8: for n < 1 no read is ever issued, the stream is left as it was, and
\* the call returns 0.
C8_NothingToSkip ==
    n < 1 =>
        /\ log = << >>
        /\ ready = avail0
        /\ pc # "loop"
        /\ (Returned => ret = 0)

\* a negative count on a stream that has data
C8_Witness ==
    /\ Returned /\ n < 0 /\ avail0 > 0
    /\ ret = 0 /\ ready = avail0

\* C9: every read requests min(remaining, chunk size) bytes, where chunk size
\* is min(n, 4096) and remaining is n less what the call has consumed from the
\* stream; so no request exceeds the buffer or what remains, and the call
\* never consumes more than n bytes.
C9_BoundedRequests ==
    /\ (pc # "start" /\ n >= 1) => bs = Min(n, MAX_SKIP_BUFFER_SIZE)
    /\ \A i \in DOMAIN log :
          /\ log[i].remaining = n - (avail0 - log[i].avail)
          /\ log[i].count = Min(log[i].remaining, Min(n, MAX_SKIP_BUFFER_SIZE))
          /\ log[i].count <= bs
          /\ log[i].count <= log[i].remaining
          /\ log[i].nr <= log[i].count
    /\ Reads > 0 => avail0 - ready <= n

\* the second read requests the one byte that remains although the buffer
\* holds a whole chunk and the stream has more
C9_Witness ==
    /\ Returned /\ Reads = 2
    /\ log[2].remaining = 1 /\ log[2].count = 1 /\ log[2].avail > 1
    /\ bs = MAX_SKIP_BUFFER_SIZE
    /\ avail0 - ready = n

C10_Safety ==
    /\ Returned => (ret >= 0 \/ ret = IOS_INTERRUPTED \/ ret = IOS_THROWN)
    /\ n >= 1 => Reads <= (n \div Min(n, MAX_SKIP_BUFFER_SIZE)) + 1
    /\ \A i \in DOMAIN log :
          (i < Len(log) \/ pc = "loop") => log[i].nr = Min(n, MAX_SKIP_BUFFER_SIZE)

C10_Progress ==
    (pc = "loop" /\ pc' = "loop") => (tn' > tn /\ Len(log') = Len(log) + 1)

\* C10: every call returns, with a count or one of the two sentinels, after at
\* most floor(n / chunk size) + 1 reads; the loop goes round again only after
\* a read that returned exactly chunk size bytes, and each such read strictly
\* increases the accumulated total.
C10_Terminates ==
    /\ [](C10_Safety)
    /\ [][C10_Progress]_vars
    /\ <>(Returned)

\* a call that needed all of its floor(n / chunk size) + 1 reads
C10_Witness ==
    /\ Returned /\ n > MAX_SKIP_BUFFER_SIZE
    /\ Reads = (n \div bs) + 1
    /\ Reads = 3
    /\ ret = n

====
